---- MODULE Spec2Model ----
(***************************************************************************)
(* Laser Scene Editor: the scene document (element list, undo/redo          *)
(* history, in-progress drawing state), and the laser and CSV codecs.       *)
(*                                                                          *)
(* Elements are Python objects: the model keeps them in a heap, a sequence  *)
(* of records indexed by reference (1..Len(heap)).  Lists and history       *)
(* entries hold references.  SceneElement is a @dataclass, so == compares   *)
(* the fields; `in` and list.remove match by identity or by ==.             *)
(***************************************************************************)
EXTENDS Integers, Sequences, FiniteSets, TLC

VARIABLES
    heap,      \* every SceneElement object created so far, by reference
    docs,      \* the SceneTab widgets of the tab widget, in tab order
    cur,       \* tabWidget.currentIndex(), 1-based
    win,       \* the settings of the main window
    disk,      \* the file the last file dialog named
    lastOp,    \* the last operation called, its argument and what it returned
    law        \* where the calls made so far stand in an edit/undo/redo run

vars == <<heap, docs, cur, win, disk, lastOp, law>>

-----------------------------------------------------------------------------
(* Bounds *)

MaxElems == 2              \* SceneElement objects created by drawing
MaxTemp == 2               \* points in the in-progress polyline buffer
MaxHist == MaxElems + 1    \* entries on an undo stack
MaxList == MaxElems + 1    \* elements in an element list
MaxCalls == MaxElems + 2   \* calls counted in an edit/undo/redo run
MaxTabs == 2               \* tabs in the tab widget
MaxLines == 4              \* lines of a file read by an import (after a header)

-----------------------------------------------------------------------------
(* Values *)

Red == <<255, 0, 0>>
Green == <<0, 255, 0>>
Blue == <<0, 0, 255>>

\* the colours of the toolbar's buttons
ToolbarColors == {Red, Green, Blue}

\* the toolbar colours the model draws with
DrawColors == {Red, Green}

\* scene positions a left click maps to
ClickPoints == {<<0, 0>>, <<1, 1>>}

\* the click sequences of the drawing gestures: the points of a polyline,
\* the centre and a rim point of a circle
GesturePolylines == {<<<<0, 0>>, <<1, 1>>>>, <<<<1, 1>>, <<0, 0>>>>}
GestureCircles == {<<<<0, 0>>, <<0, 0>>>>, <<<<0, 0>>, <<1, 1>>>>}

\* models.py: SceneElement(kind, points, color, radius)
SceneElement(kind, points, color, radius) ==
    [kind |-> kind, points |-> points, color |-> color, radius |-> radius]

\* scene_tab.py: SceneTab.__init__
NewSceneTab(grid_size) ==
    [grid_size |-> grid_size,
     cc |-> Red,
     temp_points |-> <<>>,
     circle_center |-> <<>>,      \* <<>> is None, <<c>> is the centre c
     elements |-> <<>>,
     undo |-> <<>>,               \* UndoManager._undo
     redo |-> <<>>]               \* UndoManager._redo

-----------------------------------------------------------------------------
(* Python list operations over element references *)

\* a == b on two SceneElement references, as `in` and remove test it:
\* the same object, or equal fields (dataclass __eq__)
ElemEq(h, a, b) == a = b \/ h[a] = h[b]

\* el in elements
Contains(h, elems, el) == \E i \in 1..Len(elems) : ElemEq(h, elems[i], el)

\* the index list.remove(el) deletes: the first match
FirstMatch(h, elems, el) ==
    CHOOSE i \in 1..Len(elems) :
        /\ ElemEq(h, elems[i], el)
        /\ \A j \in 1..(i - 1) : ~ElemEq(h, elems[j], el)

RemoveAt(s, i) == SubSeq(s, 1, i - 1) \o SubSeq(s, i + 1, Len(s))

\* elements.remove(el), el known to be in the list
ListRemove(h, elems, el) == RemoveAt(elems, FirstMatch(h, elems, el))

Last(s) == s[Len(s)]
Front(s) == SubSeq(s, 1, Len(s) - 1)

-----------------------------------------------------------------------------
(* undo.py: UndoManager, on the document record d that owns it *)

push_add(d, el) ==
    [d EXCEPT !.undo = Append(@, <<"add", el>>), !.redo = <<>>]

\* push_remove that keeps the redo stack
push_remove_keeps_redo(d, el) ==
    [d EXCEPT !.undo = Append(@, <<"remove", el>>)]

push_remove(d, el) ==
    [d EXCEPT !.undo = Append(@, <<"remove", el>>), !.redo = <<>>]

\* undo that pops an add entry without taking the element out of the list
UndoManager_undo_keeps_added(h, d) ==
    IF d.undo = <<>> THEN d
    ELSE LET op == Last(d.undo)[1]
             el == Last(d.undo)[2]
         IN IF op = "add"
            THEN [d EXCEPT !.undo = Front(@),
                           !.redo = Append(@, <<"add", el>>)]
            ELSE [d EXCEPT !.undo = Front(@),
                           !.elements = Append(@, el),
                           !.redo = Append(@, <<"remove", el>>)]

UndoManager_undo(h, d) ==
    IF d.undo = <<>> THEN d
    ELSE LET op == Last(d.undo)[1]
             el == Last(d.undo)[2]
         IN IF op = "add"
            THEN [d EXCEPT !.undo = Front(@),
                           !.elements = IF Contains(h, @, el)
                                        THEN ListRemove(h, @, el) ELSE @,
                           !.redo = Append(@, <<"add", el>>)]
            ELSE [d EXCEPT !.undo = Front(@),
                           !.elements = Append(@, el),
                           !.redo = Append(@, <<"remove", el>>)]

\* a mutant: redo of an add entry puts the element in front
UndoManager_redo_adds_in_front(h, d) ==
    IF d.redo = <<>> THEN d
    ELSE LET op == Last(d.redo)[1]
             el == Last(d.redo)[2]
         IN IF op = "add"
            THEN [d EXCEPT !.redo = Front(@),
                           !.elements = <<el>> \o @,
                           !.undo = Append(@, <<"add", el>>)]
            ELSE [d EXCEPT !.redo = Front(@),
                           !.elements = IF Contains(h, @, el)
                                        THEN ListRemove(h, @, el) ELSE @,
                           !.undo = Append(@, <<"remove", el>>)]

UndoManager_redo(h, d) ==
    IF d.redo = <<>> THEN d
    ELSE LET op == Last(d.redo)[1]
             el == Last(d.redo)[2]
         IN IF op = "add"
            THEN [d EXCEPT !.redo = Front(@),
                           !.elements = Append(@, el),
                           !.undo = Append(@, <<"add", el>>)]
            ELSE [d EXCEPT !.redo = Front(@),
                           !.elements = IF Contains(h, @, el)
                                        THEN ListRemove(h, @, el) ELSE @,
                           !.undo = Append(@, <<"remove", el>>)]

-----------------------------------------------------------------------------
(* scene_tab.py: SceneTab's editing operations.  Each gives the document    *)
(* after the call; a new element gets the reference Len(h) + 1.             *)

\* commit_polyline commits when the buffer holds at least 2 points
CommitsPolyline(d) == Len(d.temp_points) >= 2

PolylineOf(d) == SceneElement("polyline", d.temp_points, d.cc, 0)

\* commit_polyline that does not clear the in-progress buffer
commit_polyline_keeps_buffer(h, d) ==
    IF CommitsPolyline(d)
    THEN push_add([d EXCEPT !.elements = Append(@, Len(h) + 1)], Len(h) + 1)
    ELSE d

commit_polyline(h, d) ==
    IF CommitsPolyline(d)
    THEN [push_add([d EXCEPT !.elements = Append(@, Len(h) + 1)], Len(h) + 1)
              EXCEPT !.temp_points = <<>>]
    ELSE d

CircleOf(d, cen, r) == SceneElement("circle", <<cen>>, d.cc, r)

commit_circle_from_center(h, d) ==
    [push_add([d EXCEPT !.elements = Append(@, Len(h) + 1)], Len(h) + 1)
         EXCEPT !.circle_center = <<>>]

\* clear_all that keeps the UndoManager it had
clear_all_keeps_history(d) ==
    [d EXCEPT !.elements = <<>>, !.temp_points = <<>>, !.circle_center = <<>>]

clear_all(d) ==
    [d EXCEPT !.elements = <<>>, !.undo = <<>>, !.redo = <<>>,
              !.temp_points = <<>>, !.circle_center = <<>>]

remove_element(h, d, el) ==
    IF Contains(h, d.elements, el)
    THEN push_remove([d EXCEPT !.elements = ListRemove(h, @, el)], el)
    ELSE d

\* int(round(math.hypot(x - cx, y - cy))) on the click points of the model:
\* the nearest integer to the square root of the squared distance
Hypot(p, c) ==
    LET sq == (p[1] - c[1]) * (p[1] - c[1]) + (p[2] - c[2]) * (p[2] - c[2])
    IN CHOOSE r \in 0..(sq + 1) :
           /\ (r = 0 \/ (2 * r - 1) * (2 * r - 1) <= 4 * sq)
           /\ 4 * sq < (2 * r + 1) * (2 * r + 1)

-----------------------------------------------------------------------------
(* utils.py *)

\* a mutant: a tie between red and green goes to green
color_to_code_green_first(color) ==
    IF color[2] >= color[1] /\ color[2] >= color[3] THEN 2
    ELSE IF color[1] >= color[2] /\ color[1] >= color[3] THEN 1
    ELSE 3

color_to_code(color) ==
    IF color[1] >= color[2] /\ color[1] >= color[3] THEN 1
    ELSE IF color[2] >= color[1] /\ color[2] >= color[3] THEN 2
    ELSE 3

code_to_color(code) ==
    IF code = 1 THEN Red
    ELSE IF code = 2 THEN Green
    ELSE Blue

-----------------------------------------------------------------------------
(* Text.  A string is a sequence of one-character strings, a file a         *)
(* sequence of lines without their line ends.                               *)

Digit == <<"0", "1", "2", "3", "4", "5", "6", "7", "8", "9">>

IsDigit(c) == \E n \in 1..10 : Digit[n] = c

DigitVal(c) == (CHOOSE n \in 1..10 : Digit[n] = c) - 1

RECURSIVE Digits(_)
Digits(n) ==
    IF n < 10 THEN <<Digit[n + 1]>>
    ELSE Digits(n \div 10) \o <<Digit[(n % 10) + 1]>>

\* str(n), and an int in an f-string
str(n) == IF n < 0 THEN <<"-">> \o Digits(-n) ELSE Digits(n)

RECURSIVE NatVal(_)
NatVal(s) ==
    IF s = <<>> THEN 0 ELSE NatVal(Front(s)) * 10 + DigitVal(Last(s))

AllDigits(s) == s # <<>> /\ \A i \in 1..Len(s) : IsDigit(s[i])

IsSpace(c) == c = " "

RECURSIVE LStrip(_)
LStrip(s) == IF s # <<>> /\ IsSpace(s[1]) THEN LStrip(Tail(s)) ELSE s

RECURSIVE RStrip(_)
RStrip(s) == IF s # <<>> /\ IsSpace(Last(s)) THEN RStrip(Front(s)) ELSE s

\* s.strip()
strip(s) == RStrip(LStrip(s))

\* s.upper(), on the letters of the directives
upper(s) ==
    [i \in 1..Len(s) |->
        CASE s[i] = "c" -> "C" [] s[i] = "o" -> "O" [] s[i] = "l" -> "L"
          [] s[i] = "r" -> "R" [] s[i] = "s" -> "S" [] s[i] = "t" -> "T"
          [] s[i] = "p" -> "P" [] OTHER -> s[i]]

\* s.startswith(prefix)
startswith(s, prefix) ==
    Len(s) >= Len(prefix) /\ SubSeq(s, 1, Len(prefix)) = prefix

\* the position of the first c in s, 0 when there is none
Find(s, c) ==
    IF \E i \in 1..Len(s) : s[i] = c
    THEN CHOOSE i \in 1..Len(s) : s[i] = c /\ \A j \in 1..(i - 1) : s[j] # c
    ELSE 0

\* s.split(c): the fields between the separators
RECURSIVE split(_, _)
split(s, c) ==
    IF Find(s, c) = 0 THEN <<s>>
    ELSE <<SubSeq(s, 1, Find(s, c) - 1)>>
             \o split(SubSeq(s, Find(s, c) + 1, Len(s)), c)

\* s.split(): the words between runs of white space
RECURSIVE split_ws(_)
split_ws(s) ==
    LET t == LStrip(s)
        k == Find(t, " ")
    IN IF t = <<>> THEN <<>>
       ELSE IF k = 0 THEN <<t>>
       ELSE <<SubSeq(t, 1, k - 1)>> \o split_ws(SubSeq(t, k + 1, Len(t)))

\* A conversion gives [ok, val]; ok is FALSE where Python raises.
Raises == [ok |-> FALSE, val |-> 0]
Value(v) == [ok |-> TRUE, val |-> v]

Sign(t) == IF t # <<>> /\ t[1] = "-" THEN -1 ELSE 1
Unsigned(t) == IF t # <<>> /\ t[1] \in {"+", "-"} THEN Tail(t) ELSE t

\* int(s) of a string: white space, a sign, decimal digits
py_int(s) ==
    LET t == strip(s)
    IN IF AllDigits(Unsigned(t)) THEN Value(Sign(t) * NatVal(Unsigned(t)))
       ELSE Raises

\* int(float(s)) of a string: white space, a sign, digits with an optional
\* fraction; int() drops the fraction
py_int_float(s) ==
    LET t == strip(s)
        u == Unsigned(t)
        k == Find(u, ".")
        ip == IF k = 0 THEN u ELSE SubSeq(u, 1, k - 1)
        fp == IF k = 0 THEN <<>> ELSE SubSeq(u, k + 1, Len(u))
        ok == IF k = 0 THEN AllDigits(u)
              ELSE /\ (ip = <<>> \/ AllDigits(ip))
                   /\ (fp = <<>> \/ AllDigits(fp))
                   /\ (ip # <<>> \/ fp # <<>>)
    IN IF ok THEN Value(Sign(t) * NatVal(ip)) ELSE Raises

-----------------------------------------------------------------------------
(* utils.py: circle_to_points, for the step counts that divide 8 *)

\* round(n / d), d > 0, a tie going to the even integer (Python's round)
RoundHalfEven(n, d) ==
    LET q == n \div d
        r == n % d
    IN IF 2 * r > d \/ (2 * r = d /\ q % 2 = 1) THEN q + 1 ELSE q

\* 10^6 * cos(k * pi / 4), to the nearest integer
CosE6(k) ==
    CASE k % 8 = 0 -> 1000000
      [] k % 8 \in {1, 7} -> 707107
      [] k % 8 \in {2, 6} -> 0
      [] k % 8 \in {3, 5} -> -707107
      [] OTHER -> -1000000

SinE6(k) == CosE6(k + 6)

\* a mutant: a circle of radius 0 is rasterized too
circle_to_points_of_zero_radius(cen, r, s) ==
    IF r < 0 \/ s <= 0 THEN <<>>
    ELSE [i \in 1..s |-> cen]

circle_to_points(cen, r, s) ==
    IF r <= 0 \/ s <= 0 THEN <<>>
    ELSE [i \in 1..s |->
             <<RoundHalfEven(cen[1] * 1000000 + r * CosE6((i - 1) * (8 \div s)),
                             1000000),
               RoundHalfEven(cen[2] * 1000000 + r * SinE6((i - 1) * (8 \div s)),
                             1000000)>>]

-----------------------------------------------------------------------------
(* main_window.py: the laser format *)

COLOR == <<"C", "O", "L", "O", "R">>
STOP == <<"S", "T", "O", "P">>

Max(a, b) == IF a >= b THEN a ELSE b

\* round((o / max(1, g)) * 255)
Normalized(o, g) == RoundHalfEven(o * 255, Max(1, g))

\* the line written for one point
LaserPoint(pt, normalize, g) ==
    IF normalize
    THEN str(Normalized(pt[1], g)) \o <<",">> \o str(Normalized(pt[2], g))
    ELSE str(pt[1]) \o <<",">> \o str(pt[2])

\* a mutant: a circle without raster points is written as its centre
ExportPoints_centre_for_empty(el, s) ==
    IF el.kind = "polyline" THEN el.points
    ELSE IF el.kind = "circle"
    THEN IF circle_to_points(el.points[1], el.radius, s) = <<>>
         THEN el.points
         ELSE circle_to_points(el.points[1], el.radius, s)
    ELSE <<>>

\* the points written for one element
ExportPoints(el, s) ==
    IF el.kind = "polyline" THEN el.points
    ELSE IF el.kind = "circle" THEN circle_to_points(el.points[1], el.radius, s)
    ELSE <<>>

\* a mutant: the element's lines without the terminator
LaserElement_without_stop(el, normalize, g, s) ==
    LET pts == ExportPoints(el, s)
    IN <<COLOR \o <<" ">> \o str(color_to_code(el.color))>>
           \o [i \in 1..Len(pts) |-> LaserPoint(pts[i], normalize, g)]

\* the lines written for one element
LaserElement(el, normalize, g, s) ==
    LET pts == ExportPoints(el, s)
    IN <<COLOR \o <<" ">> \o str(color_to_code(el.color))>>
           \o [i \in 1..Len(pts) |-> LaserPoint(pts[i], normalize, g)]
           \o <<STOP>>

\* export_laser_format: the file written for the elements els
RECURSIVE laser_lines(_, _, _, _)
laser_lines(els, normalize, g, s) ==
    IF els = <<>> THEN <<>>
    ELSE laser_lines(Front(els), normalize, g, s)
             \o LaserElement(Last(els), normalize, g, s)

\* import_laser_format: cc (<<>> is None), cp and the elements appended
LaserStart == [cc |-> <<>>, cp |-> <<>>, out |-> <<>>]

Flushes(st) == st.cp # <<>> /\ st.cc # <<>>

Flush(st) ==
    IF Flushes(st)
    THEN Append(st.out, SceneElement("polyline", st.cp, st.cc[1], 0))
    ELSE st.out

\* the colour code of a COLOR line
ColorCode(ln) ==
    LET parts == split_ws(ln)
    IN IF Len(parts) >= 2 /\ py_int(parts[2]).ok THEN py_int(parts[2]).val
       ELSE 1

\* a mutant: STOP that forgets the current colour
LaserStop_resets_colour(st) ==
    [st EXCEPT !.out = Flush(st), !.cp = <<>>, !.cc = <<>>]

\* STOP that keeps the accumulated points
LaserStop_keeps_points(st) == [st EXCEPT !.out = Flush(st)]

\* a STOP line
LaserStop(st) == [st EXCEPT !.out = Flush(st), !.cp = <<>>]

\* a coordinate line whose failure to parse drops the accumulated points
LaserCoordinates_drops_points(st, ln) ==
    LET k == Find(ln, ",")
        x == py_int_float(strip(SubSeq(ln, 1, k - 1)))
        y == py_int_float(strip(SubSeq(ln, k + 1, Len(ln))))
    IN IF k # 0 /\ x.ok /\ y.ok
       THEN [st EXCEPT !.cp = Append(@, <<x.val, y.val>>)]
       ELSE [st EXCEPT !.cp = <<>>]

\* a line that is no directive: px, py = ln.split(",", 1), both converted,
\* the point appended; any exception skips the line
LaserCoordinates(st, ln) ==
    LET k == Find(ln, ",")
        x == py_int_float(strip(SubSeq(ln, 1, k - 1)))
        y == py_int_float(strip(SubSeq(ln, k + 1, Len(ln))))
    IN IF k # 0 /\ x.ok /\ y.ok
       THEN [st EXCEPT !.cp = Append(@, <<x.val, y.val>>)]
       ELSE st

\* one pass of the while loop, on the stripped line ln
LaserLine(st, ln) ==
    IF ln = <<>> THEN st
    ELSE IF startswith(upper(ln), COLOR)
    THEN [cc |-> <<code_to_color(ColorCode(ln))>>,
          cp |-> IF Flushes(st) THEN <<>> ELSE st.cp,
          out |-> Flush(st)]
    ELSE IF upper(ln) = STOP
    THEN LaserStop(st)
    ELSE LaserCoordinates(st, ln)

RECURSIVE LaserLines(_)
LaserLines(lines) ==
    IF lines = <<>> THEN LaserStart
    ELSE LaserLine(LaserLines(Front(lines)), strip(Last(lines)))

\* the elements import_laser_format appends for the file lines
laser_elements(lines) == Flush(LaserLines(lines))

-----------------------------------------------------------------------------
(* main_window.py: the CSV format, read and written with the csv module *)

K_kind == <<"k", "i", "n", "d">>
K_x == <<"x">>
K_y == <<"y">>
K_r == <<"r">>
K_g == <<"g">>
K_b == <<"b">>
K_radius == <<"r", "a", "d", "i", "u", "s">>
POLYLINE == <<"p", "o", "l", "y", "l", "i", "n", "e">>
CIRCLE == <<"c", "i", "r", "c", "l", "e">>

fieldnames == <<K_kind, K_x, K_y, K_r, K_g, K_b, K_radius>>

\* the fields of a record joined by commas
RECURSIVE Join(_)
Join(fields) ==
    IF fields = <<>> THEN <<>>
    ELSE IF Len(fields) = 1 THEN fields[1]
    ELSE Join(Front(fields)) \o <<",">> \o Last(fields)

\* save_csv: the rows of one element
CsvRows(el) ==
    IF el.kind = "polyline"
    THEN [i \in 1..Len(el.points) |->
             <<POLYLINE, str(el.points[i][1]), str(el.points[i][2]),
               str(el.color[1]), str(el.color[2]), str(el.color[3]), <<>>>>]
    ELSE IF el.kind = "circle"
    THEN <<<<CIRCLE, str(el.points[1][1]), str(el.points[1][2]),
             str(el.color[1]), str(el.color[2]), str(el.color[3]),
             str(el.radius)>>>>
    ELSE <<>>

RECURSIVE CsvAllRows(_)
CsvAllRows(els) ==
    IF els = <<>> THEN <<>> ELSE CsvAllRows(Front(els)) \o CsvRows(Last(els))

\* save_csv: the header line and one line per row
csv_lines(els) ==
    LET rows == CsvAllRows(els)
    IN <<Join(fieldnames)>> \o [i \in 1..Len(rows) |-> Join(rows[i])]

\* A value of a DictReader row: a string, None (the record is shorter than
\* the header) or the default passed to get() (the header lacks the key).
StrVal(t) == [t |-> "str", s |-> t]
NoneVal == [t |-> "none", s |-> <<>>]
DefaultVal == [t |-> "default", s |-> <<>>]

\* r.get(key, default) of the record fields under the header hdr
Get(hdr, fields, key) ==
    IF \A i \in 1..Len(hdr) : hdr[i] # key THEN DefaultVal
    ELSE LET i == CHOOSE j \in 1..Len(hdr) :
                      hdr[j] = key /\ \A k \in (j + 1)..Len(hdr) : hdr[k] # key
         IN IF i <= Len(fields) THEN StrVal(fields[i]) ELSE NoneVal

\* int(float(r.get(key, 0)))
IntFloatOf(v) ==
    IF v.t = "default" THEN Value(0)
    ELSE IF v.t = "none" THEN Raises
    ELSE py_int_float(v.s)

\* int(radius) if radius not in (None, "") else 0
RadiusOf(v) == IF v.t = "str" /\ v.s # <<>> THEN py_int(v.s) ELSE Value(0)

\* open_csv: cc (<<>> is None), current_poly, the elements appended, and
\* whether a conversion raised
CsvStart == [cc |-> <<>>, poly |-> <<>>, out |-> <<>>, raised |-> FALSE]

\* a polyline row that never starts a new polyline on a colour change
CsvPolylineRow_one_colour(st, pt, color) ==
    [st EXCEPT !.cc = IF st.cc = <<>> THEN <<color>> ELSE @,
               !.poly = Append(IF st.cc = <<>> THEN <<>> ELSE @, pt)]

\* a row of kind "polyline"
CsvPolylineRow(st, pt, color) ==
    LET cc1 == IF st.cc = <<>> THEN <<color>> ELSE st.cc
        poly1 == IF st.cc = <<>> THEN <<>> ELSE st.poly
        flush == color # cc1[1] /\ poly1 # <<>>
    IN [st EXCEPT
           !.cc = IF flush THEN <<color>> ELSE cc1,
           !.poly = Append(IF flush THEN <<>> ELSE poly1, pt),
           !.out = IF flush
                   THEN Append(@, SceneElement("polyline", poly1, cc1[1], 0))
                   ELSE @]

\* a row of kind "circle"
CsvCircleRow(st, pt, color, radius) ==
    LET out1 == IF st.poly # <<>>
                THEN Append(st.out,
                            SceneElement("polyline", st.poly, st.cc[1], 0))
                ELSE st.out
        cc1 == IF st.poly # <<>> THEN <<>> ELSE st.cc
        rr == RadiusOf(radius)
    IN [cc |-> cc1, poly |-> <<>>,
        out |-> IF rr.ok
                THEN Append(out1, SceneElement("circle", <<pt>>, color, rr.val))
                ELSE out1,
        raised |-> ~rr.ok]

\* one pass of the loop over the rows, on the record fields
CsvRow(st, hdr, fields) ==
    LET kind == Get(hdr, fields, K_kind)
        x == IntFloatOf(Get(hdr, fields, K_x))
        y == IntFloatOf(Get(hdr, fields, K_y))
        rc == IntFloatOf(Get(hdr, fields, K_r))
        gc == IntFloatOf(Get(hdr, fields, K_g))
        bc == IntFloatOf(Get(hdr, fields, K_b))
    IN IF st.raised THEN st
       ELSE IF ~(x.ok /\ y.ok /\ rc.ok /\ gc.ok /\ bc.ok)
       THEN [st EXCEPT !.raised = TRUE]
       ELSE IF kind.t = "default" \/ (kind.t = "str" /\ kind.s = POLYLINE)
       THEN CsvPolylineRow(st, <<x.val, y.val>>, <<rc.val, gc.val, bc.val>>)
       ELSE IF kind.t = "str" /\ kind.s = CIRCLE
       THEN CsvCircleRow(st, <<x.val, y.val>>, <<rc.val, gc.val, bc.val>>,
                         Get(hdr, fields, K_radius))
       ELSE st

\* the rows of a DictReader: the first line is the header, an empty line
\* is no record
RECURSIVE CsvFold(_, _)
CsvFold(hdr, lines) ==
    IF lines = <<>> THEN CsvStart
    ELSE IF Last(lines) = <<>> THEN CsvFold(hdr, Front(lines))
    ELSE CsvRow(CsvFold(hdr, Front(lines)), hdr, split(Last(lines), ","))

\* open_csv on the file lines: the elements appended, and whether the
\* handler was left by an exception
csv_import(lines) ==
    LET st == IF lines = <<>> THEN CsvStart
              ELSE CsvFold(split(lines[1], ","), Tail(lines))
    IN [out |-> IF ~st.raised /\ st.poly # <<>>
                THEN Append(st.out,
                            SceneElement("polyline", st.poly, st.cc[1], 0))
                ELSE st.out,
        raised |-> st.raised]

-----------------------------------------------------------------------------
(* Inputs: settings, files and documents *)

\* show_settings_dialog: the grid size spin box holds 1..255
GridSizes == {100, 255}

\* steps for circle export: the least value of the spin box
CircleSteps == {8}

Line(fields) == Join(fields)

\* a laser file of two polylines
LaserTwo ==
    <<COLOR \o <<" ", "2">>, <<"0", ",", "0">>, <<"1", ",", "1">>, STOP,
      COLOR \o <<" ", "1">>, <<"1", ",", "1">>, <<"0", ",", "0">>, STOP>>

LaserFiles == {LaserTwo}

\* the records of a polyline of two points and of a circle
TwoElements ==
    <<Line(<<POLYLINE, <<"0">>, <<"0">>, <<"2", "5", "5">>, <<"0">>, <<"0">>, <<>>>>),
      Line(<<POLYLINE, <<"1">>, <<"1">>, <<"2", "5", "5">>, <<"0">>, <<"0">>, <<>>>>),
      Line(<<CIRCLE, <<"0">>, <<"0">>, <<"0">>, <<"2", "5", "5">>, <<"0">>, <<"1">>>>)>>

CsvGood == <<Line(fieldnames)>> \o TwoElements

\* the x of the fourth record is no number; two more points follow it
CsvBadX ==
    <<Line(fieldnames)>> \o TwoElements \o
    <<Line(<<POLYLINE, <<"a", "b", "c">>, <<"0">>, <<"2", "5", "5">>, <<"0">>, <<"0">>, <<>>>>),
      Line(<<POLYLINE, <<"0">>, <<"0">>, <<"2", "5", "5">>, <<"0">>, <<"0">>, <<>>>>),
      Line(<<POLYLINE, <<"1">>, <<"1">>, <<"2", "5", "5">>, <<"0">>, <<"0">>, <<>>>>)>>

\* the radius of the second circle is no number; a third circle follows it
CsvBadRadius ==
    <<Line(fieldnames)>> \o TwoElements \o
    <<Line(<<CIRCLE, <<"0">>, <<"0">>, <<"0">>, <<"2", "5", "5">>, <<"0">>, <<"x">>>>),
      Line(<<CIRCLE, <<"0">>, <<"0">>, <<"0">>, <<"2", "5", "5">>, <<"0">>, <<"1">>>>)>>

CsvFiles == {CsvGood, CsvBadX, CsvBadRadius}

\* what each importer makes of each file
CsvImported == [f \in CsvFiles |-> csv_import(f)]
LaserImported == [f \in LaserFiles |-> laser_elements(f)]

\* sequences of at most n members of S
SeqsUpTo(S, n) == UNION {[1..k -> S] : k \in 0..n}

\* lines of laser files: a directive, two points, a terminator, and a line
\* whose first field is no number
LaserInputLines ==
    {COLOR \o <<" ", "2">>,
     <<"0", ",", "0">>,
     <<"-", "1", ",", "9">>,
     STOP,
     <<"x", ",", "1">>}

\* records of CSV files: two polyline points of different colours, a
\* circle, a record whose x is no number, a circle whose radius is none
CsvInputRecords ==
    {Line(<<POLYLINE, <<"0">>, <<"0">>, <<"2", "5", "5">>, <<"0">>, <<"0">>, <<>>>>),
     Line(<<POLYLINE, <<"1">>, <<"1">>, <<"0">>, <<"2", "5", "5">>, <<"0">>, <<>>>>),
     Line(<<CIRCLE, <<"0">>, <<"0">>, <<"0">>, <<"2", "5", "5">>, <<"0">>, <<"1">>>>),
     Line(<<POLYLINE, <<"a">>, <<"0">>, <<"2", "5", "5">>, <<"0">>, <<"0">>, <<>>>>),
     Line(<<CIRCLE, <<"0">>, <<"0">>, <<"0">>, <<"2", "5", "5">>, <<"0">>, <<"x">>>>)}

\* elements of imported documents
SampleElements ==
    {SceneElement("polyline", <<<<0, 0>>, <<100, 0>>, <<10, 255>>>>, Red, 0),
     SceneElement("polyline", <<<<5, 5>>>>, Red, 0),
     SceneElement("polyline", <<<<-5, 3>>, <<0, 0>>>>, <<10, 200, 30>>, 0),
     SceneElement("circle", <<<<10, 10>>>>, Green, 5),
     SceneElement("circle", <<<<0, 0>>>>, Blue, 0)}

SampleDocs == UNION {[1..n -> SampleElements] : n \in 0..MaxElems}

-----------------------------------------------------------------------------
(* The state machine *)

\* ref: the element passed in (0: none); ret: the element returned (0: None);
\* hit: whether the call changed the element list
Op(name, ref, ret, hit) ==
    [op |-> name, ref |-> ref, ret |-> ret, hit |-> hit, exc |-> FALSE]

\* the call was left by an exception
Raised(o) == [o EXCEPT !.exc = TRUE]

sc == docs[cur]

(* The run a history law speaks of: commit/remove calls on an empty         *)
(* document with empty history ("edits"), then undo calls only ("undos"),   *)
(* then redo calls only ("redos"); "off" once the calls leave that shape.   *)
(* elems0 and undo0 are the element list and the undo stack at the first    *)
(* undo; cleared holds from clear_all() through the undo/redo calls that    *)
(* follow it directly.                                                      *)
LawStart(cleared) ==
    [phase |-> "edits", calls |-> 0, undos |-> 0, redos |-> 0,
     elems0 |-> <<>>, undo0 |-> <<>>, cleared |-> cleared]

LawOff ==
    [phase |-> "off", calls |-> 0, undos |-> 0, redos |-> 0,
     elems0 |-> <<>>, undo0 |-> <<>>, cleared |-> FALSE]

\* after a commit_polyline / commit_circle / remove_element call
LawEdit ==
    IF law.phase = "edits" /\ law.calls < MaxCalls
    THEN [law EXCEPT !.calls = @ + 1, !.cleared = FALSE]
    ELSE LawOff

\* after an undo() call on document d
LawUndo(d) ==
    IF law.phase = "edits" /\ law.calls > 0
    THEN [law EXCEPT !.phase = "undos", !.undos = 1,
                     !.elems0 = d.elements, !.undo0 = d.undo]
    ELSE IF law.phase = "undos" /\ law.undos < MaxCalls
    THEN [law EXCEPT !.undos = @ + 1]
    ELSE IF law.phase = "imported" /\ law.undos < law.calls
    THEN [law EXCEPT !.undos = @ + 1]
    ELSE IF law.phase = "edits" THEN law
    ELSE LawOff

\* after an import that appended n elements to a new document: "imported",
\* through the undo calls that follow it directly
LawImported(n) == [LawOff EXCEPT !.phase = "imported", !.calls = n]

\* after a redo() call
LawRedo ==
    IF law.phase = "undos"
    THEN [law EXCEPT !.phase = "redos", !.redos = 1]
    ELSE IF law.phase = "redos" /\ law.redos < law.undos
    THEN [law EXCEPT !.redos = @ + 1]
    ELSE IF law.phase = "edits" /\ law.calls = 0 THEN law
    ELSE LawOff

\* after a call that is no edit of the document (a click, a colour choice)
LawOther == [law EXCEPT !.cleared = FALSE]

\* The history laws are stated over the document's interface (Spec below);
\* a commit made by a handler of the window leaves the run (LawOff).

\* main_window.py: __init__, the settings before any are saved
grid_size == 255
circle_export_steps == 90

\* the settings of the window
Settings(g, s, n) == [grid_size |-> g, steps |-> s, normalize |-> n]

\* The file the last file dialog named: its lines, whether this program
\* wrote it, and then the data of the elements and the settings it was
\* written from.
File(fmt, lines, written, src, w) ==
    [fmt |-> fmt, lines |-> lines, written |-> written, src |-> src, win |-> w]

NoFile == File("none", <<>>, FALSE, <<>>, Settings(0, 0, FALSE))

Init ==
    /\ heap = <<>>
    /\ docs = <<NewSceneTab(grid_size)>>
    /\ cur = 1
    /\ win = Settings(grid_size, circle_export_steps, FALSE)
    /\ disk = NoFile
    /\ lastOp = Op("init", 0, 0, FALSE)
    /\ law = LawStart(FALSE)

\* room for one more element and one more history entry
Room(d, n) ==
    /\ Len(heap) < n
    /\ Len(d.undo) < MaxHist
    /\ Len(d.elements) < MaxList

\* main_window.py: set_color
set_color ==
    \E c \in DrawColors :
        /\ docs' = [docs EXCEPT ![cur].cc = c]
        /\ lastOp' = Op("other", 0, 0, FALSE)
        /\ law' = LawOther
        /\ UNCHANGED <<heap, cur, win, disk>>

\* scene_tab.py: _handle_mouse_press, left button, tool "polyline"
press_polyline ==
    \E p \in ClickPoints :
        /\ Len(sc.temp_points) < MaxTemp
        /\ docs' = [docs EXCEPT ![cur].temp_points = Append(@, p)]
        /\ lastOp' = Op("other", 0, 0, FALSE)
        /\ law' = LawOther
        /\ UNCHANGED <<heap, cur, win, disk>>

\* scene_tab.py: _handle_mouse_press, left button, tool "circle":
\* the first click sets the centre, the second commits the circle
press_circle ==
    \E p \in ClickPoints :
        \/ /\ sc.circle_center = <<>>
           /\ docs' = [docs EXCEPT ![cur].circle_center = <<p>>]
           /\ lastOp' = Op("other", 0, 0, FALSE)
           /\ law' = LawOther
           /\ UNCHANGED <<heap, cur, win, disk>>
        \/ /\ sc.circle_center # <<>>
           /\ Room(sc, MaxElems - 1)
           /\ heap' = Append(heap, CircleOf(sc, sc.circle_center[1],
                                            Hypot(p, sc.circle_center[1])))
           /\ docs' = [docs EXCEPT ![cur] = commit_circle_from_center(heap, sc)]
           /\ lastOp' = Op("commit_circle", 0, Len(heap) + 1, TRUE)
           /\ law' = LawOff
           /\ UNCHANGED <<cur, win, disk>>

\* main_window.py: finish_polyline_button; scene_tab.py: double click
finish_polyline ==
    /\ CommitsPolyline(sc) => Room(sc, MaxElems - 1)
    /\ heap' = IF CommitsPolyline(sc) THEN Append(heap, PolylineOf(sc)) ELSE heap
    /\ docs' = [docs EXCEPT ![cur] = commit_polyline(heap, sc)]
    /\ lastOp' = Op("commit_polyline", 0,
                    IF CommitsPolyline(sc) THEN Len(heap) + 1 ELSE 0,
                    CommitsPolyline(sc))
    /\ law' = LawOff
    /\ UNCHANGED <<cur, win, disk>>

\* main_window.py: undo -> SceneTab.undo
undo ==
    /\ (sc.undo # <<>> /\ Last(sc.undo)[1] = "remove")
           => Len(sc.elements) < MaxList
    /\ docs' = [docs EXCEPT ![cur] = UndoManager_undo(heap, sc)]
    /\ lastOp' = Op("undo", 0, 0, sc.undo # <<>>)
    /\ law' = LawUndo(sc)
    /\ UNCHANGED <<heap, cur, win, disk>>

\* main_window.py: redo -> SceneTab.redo
redo ==
    /\ (sc.redo # <<>> /\ Last(sc.redo)[1] = "add")
           => Len(sc.elements) < MaxList
    /\ docs' = [docs EXCEPT ![cur] = UndoManager_redo(heap, sc)]
    /\ lastOp' = Op("redo", 0, 0, sc.redo # <<>>)
    /\ law' = LawRedo
    /\ UNCHANGED <<heap, cur, win, disk>>

\* main_window.py: reset_scene, answered Yes
reset_scene ==
    /\ docs' = [docs EXCEPT ![cur] = clear_all(sc)]
    /\ lastOp' = Op("clear_all", 0, 0, sc.elements # <<>>)
    /\ law' = LawStart(TRUE)
    /\ UNCHANGED <<heap, cur, win, disk>>

\* The handlers of the window, one call at a time: every edit the user
\* interface can make (no handler calls remove_element).
EditNext ==
    \/ set_color
    \/ press_polyline
    \/ press_circle
    \/ finish_polyline
    \/ undo
    \/ redo
    \/ reset_scene

EditSpec == Init /\ [][EditNext]_vars

-----------------------------------------------------------------------------
(* The document's editing interface, called by any client: a drawing        *)
(* gesture (colour, clicks, commit) runs without another call in between.   *)

\* set_color(c), one click per point of pts, then commit_polyline()
draw_polyline ==
    \E c \in DrawColors, pts \in GesturePolylines :
        LET d == [sc EXCEPT !.cc = c, !.temp_points = @ \o pts]
        IN /\ sc.temp_points = <<>>
           /\ Room(sc, MaxElems)
           /\ heap' = Append(heap, PolylineOf(d))
           /\ docs' = [docs EXCEPT ![cur] = commit_polyline(heap, d)]
           /\ lastOp' = Op("commit_polyline", 0, Len(heap) + 1, TRUE)
           /\ law' = LawEdit
           /\ UNCHANGED <<cur, win, disk>>

\* set_color(c), a click on the centre, a click on the rim
draw_circle ==
    \E c \in DrawColors, g \in GestureCircles :
        LET d == [sc EXCEPT !.cc = c, !.circle_center = <<g[1]>>]
        IN /\ sc.circle_center = <<>>
           /\ Room(sc, MaxElems)
           /\ heap' = Append(heap, CircleOf(d, g[1], Hypot(g[2], g[1])))
           /\ docs' = [docs EXCEPT ![cur] = commit_circle_from_center(heap, d)]
           /\ lastOp' = Op("commit_circle", 0, Len(heap) + 1, TRUE)
           /\ law' = LawEdit
           /\ UNCHANGED <<cur, win, disk>>

\* scene_tab.py: remove_element, called with any element ever created
remove ==
    \E el \in 1..Len(heap) :
        /\ Contains(heap, sc.elements, el) => Len(sc.undo) < MaxHist
        /\ docs' = [docs EXCEPT ![cur] = remove_element(heap, sc, el)]
        /\ lastOp' = Op("remove_element", el, 0, Contains(heap, sc.elements, el))
        /\ law' = LawEdit
        /\ UNCHANGED <<heap, cur, win, disk>>

\* the data of the elements of document d, in list order
DataOf(h, d) == [i \in 1..Len(d.elements) |-> h[d.elements[i]]]

\* an import that pushes a history entry for its first element only
AppendAll_one_entry(d, k, n) ==
    IF n = 0 THEN d
    ELSE push_add([d EXCEPT !.elements = @ \o [i \in 1..n |-> k + i]], k + 1)

\* sc.elements.append(el); sc.undo_manager.push_add(sc.elements[-1]), once
\* for each of the n elements created after the first k
RECURSIVE AppendAll(_, _, _)
AppendAll(d, k, n) ==
    IF n = 0 THEN d
    ELSE push_add([AppendAll(d, k, n - 1) EXCEPT !.elements = Append(@, k + n)],
                  k + n)

\* new_scene_tab(), then the elements els appended to the new current tab
ImportInto(els, o, file) ==
    /\ Len(docs) < MaxTabs
    /\ heap' = heap \o els
    /\ docs' = Append(docs, AppendAll(NewSceneTab(win.grid_size),
                                      Len(heap), Len(els)))
    /\ cur' = Len(docs) + 1
    /\ disk' = file
    /\ lastOp' = o
    /\ law' = LawImported(Len(els))
    /\ UNCHANGED win

\* what open_csv returns to the event loop
CsvOp(r) ==
    IF r.raised THEN Raised(Op("open_csv", 0, Len(r.out), r.out # <<>>))
    ELSE Op("open_csv", 0, Len(r.out), r.out # <<>>)

\* main_window.py: open_csv, on a file this program did not write
open_csv ==
    \E f \in CsvFiles :
        /\ Len(heap) + Len(CsvImported[f].out) <= MaxElems
        /\ ImportInto(CsvImported[f].out, CsvOp(CsvImported[f]),
                      File("csv", f, FALSE, <<>>, NoFile.win))

\* main_window.py: import_laser_format, on a file this program did not write
import_laser_format ==
    \E f \in LaserFiles :
        /\ Len(heap) + Len(LaserImported[f]) <= MaxElems
        /\ ImportInto(LaserImported[f],
                      Op("import_laser_format", 0, Len(LaserImported[f]),
                         LaserImported[f] # <<>>),
                      File("laser", f, FALSE, <<>>, NoFile.win))

Next ==
    \/ draw_polyline
    \/ draw_circle
    \/ remove
    \/ undo
    \/ redo
    \/ reset_scene
    \/ open_csv
    \/ import_laser_format

Spec == Init /\ [][Next]_vars

-----------------------------------------------------------------------------
(* Writing a document to a file and reading the file back *)

\* main_window.py: show_settings_dialog, apply
apply_settings ==
    \E g \in GridSizes, s \in CircleSteps, n \in BOOLEAN :
        /\ win' = Settings(g, s, n)
        /\ docs' = [i \in 1..Len(docs) |-> [docs[i] EXCEPT !.grid_size = g]]
        /\ lastOp' = Op("other", 0, 0, FALSE)
        /\ law' = LawOther
        /\ UNCHANGED <<heap, cur, disk>>

\* main_window.py: export_laser_format
export_laser_format ==
    /\ disk' = File("laser",
                    laser_lines(DataOf(heap, sc), win.normalize,
                                win.grid_size, win.steps),
                    TRUE, DataOf(heap, sc), win)
    /\ lastOp' = Op("export_laser_format", 0, 0, FALSE)
    /\ law' = LawOther
    /\ UNCHANGED <<heap, docs, cur, win>>

\* main_window.py: save_csv
save_csv ==
    /\ disk' = File("csv", csv_lines(DataOf(heap, sc)), TRUE,
                    DataOf(heap, sc), win)
    /\ lastOp' = Op("save_csv", 0, 0, FALSE)
    /\ law' = LawOther
    /\ UNCHANGED <<heap, docs, cur, win>>

\* main_window.py: import_laser_format, on the file last exported
import_exported_laser ==
    /\ disk.fmt = "laser"
    /\ disk.written
    /\ LET els == laser_elements(disk.lines)
       IN ImportInto(els, Op("import_laser_format", 0, Len(els), els # <<>>),
                     disk)

\* main_window.py: open_csv, on the file last saved
open_saved_csv ==
    /\ disk.fmt = "csv"
    /\ disk.written
    /\ LET r == csv_import(disk.lines)
       IN ImportInto(r.out, CsvOp(r), disk)

\* A document that open_csv creates from a file: any integer coordinates,
\* colours and radii; all its elements are on the undo stack.
CodecInit ==
    /\ heap \in SampleDocs
    /\ win \in {Settings(g, s, n) :
                    g \in GridSizes, s \in CircleSteps, n \in BOOLEAN}
    /\ docs = <<AppendAll(NewSceneTab(win.grid_size), 0, Len(heap))>>
    /\ cur = 1
    /\ disk = NoFile
    /\ lastOp = Op("init", 0, 0, FALSE)
    /\ law = LawOff

CodecNext ==
    \/ apply_settings
    \/ export_laser_format
    \/ save_csv
    \/ import_exported_laser
    \/ open_saved_csv

CodecSpec == CodecInit /\ [][CodecNext]_vars

-----------------------------------------------------------------------------
(* Importing the file that the file dialog names *)

\* a file that cannot be opened or decoded
Unreadable == File("unreadable", <<>>, FALSE, <<>>, NoFile.win)

\* the files of the inputs above
ImportFiles ==
    {File("laser", f, FALSE, <<>>, NoFile.win) :
         f \in SeqsUpTo(LaserInputLines, MaxLines)}
    \cup {File("csv", <<Line(fieldnames)>> \o f, FALSE, <<>>, NoFile.win) :
              f \in SeqsUpTo(CsvInputRecords, MaxLines)}
    \cup {Unreadable}

\* main_window.py: import_laser_format; reading the file comes first, and
\* a failure to read it returns
import_laser_file ==
    \/ /\ disk.fmt = "unreadable"
       /\ lastOp' = Op("import_laser_format", 0, 0, FALSE)
       /\ law' = LawOther
       /\ UNCHANGED <<heap, docs, cur, win, disk>>
    \/ /\ disk.fmt = "laser"
       /\ LET els == laser_elements(disk.lines)
          IN ImportInto(els, Op("import_laser_format", 0, Len(els), els # <<>>),
                        disk)

\* main_window.py: open_csv; new_scene_tab() comes first, and a failure to
\* read the file returns
open_csv_file ==
    \/ /\ disk.fmt = "unreadable"
       /\ ImportInto(<<>>, Op("open_csv", 0, 0, FALSE), disk)
    \/ /\ disk.fmt = "csv"
       /\ LET r == csv_import(disk.lines)
          IN ImportInto(r.out, CsvOp(r), disk)

ImportInit ==
    /\ heap = <<>>
    /\ docs = <<NewSceneTab(grid_size)>>
    /\ cur = 1
    /\ win = Settings(grid_size, circle_export_steps, FALSE)
    /\ disk \in ImportFiles
    /\ lastOp = Op("init", 0, 0, FALSE)
    /\ law = LawStart(FALSE)

ImportNext ==
    \/ import_laser_file
    \/ open_csv_file
    \/ undo
    \/ redo

ImportSpec == ImportInit /\ [][ImportNext]_vars

-----------------------------------------------------------------------------
(* main_window.py: the elements table and the settings dialog *)

Min(a, b) == IF a <= b THEN a ELSE b

\* the columns of the table whose cells are the x, the y and the radius
ColumnX == 4
ColumnY == 5
ColumnRadius == 6

\* what the user types into a cell: a number below the grid, a fraction, a
\* number above the grid, and text that is no number
CellTexts == {<<"-", "1">>, <<"0", ".", "9">>, <<"3", "0", "0">>, <<"a">>}

\* a mutant: the entered number is stored as it is
Clamp_stores_raw(g, v) == v

\* x = max(0, min(sc.grid_size, x))
Clamp(g, v) == Max(0, Min(g, v))

\* el.radius = max(0, val)
ClampRadius(v) == Max(0, v)

\* the rows that update_elements_table makes of element el: its sub-indices
TableSubs(el) ==
    IF el.kind = "polyline" THEN 1..Len(el.points)
    ELSE IF el.kind = "circle" THEN {1}
    ELSE {}

\* the text of the cell of column col in the row of point sub of el, as
\* update_elements_table wrote it
CellText(el, sub, col) ==
    IF col = ColumnRadius
    THEN IF el.kind = "circle" THEN str(el.radius) ELSE <<>>
    ELSE IF el.points = <<>> THEN <<"0">>
    ELSE str(el.points[sub][IF col = ColumnX THEN 1 ELSE 2])

\* _on_table_item_changed: element el after the cell of column col in the
\* row of its point sub was given the text; g is the document's grid_size.
\* An exception (a text that is no number, a circle without centre) leaves
\* the handler with nothing changed.
on_table_item_changed(el, sub, col, text, g) ==
    IF col \in {ColumnX, ColumnY}
    THEN LET x == py_int_float(IF col = ColumnX THEN text
                               ELSE CellText(el, sub, ColumnX))
             y == py_int_float(IF col = ColumnY THEN text
                               ELSE CellText(el, sub, ColumnY))
         IN IF ~x.ok \/ ~y.ok THEN el
            ELSE IF el.kind \in {"polyline", "circle"}
                    /\ sub \in 1..Len(el.points)
                    /\ (el.kind = "circle" => sub = 1)
            THEN [el EXCEPT !.points[sub] = <<Clamp(g, x.val), Clamp(g, y.val)>>]
            ELSE el
    ELSE IF col = ColumnRadius /\ el.kind = "circle"
    THEN LET val == py_int_float(text)
         IN IF val.ok THEN [el EXCEPT !.radius = ClampRadius(val.val)] ELSE el
    ELSE el

\* what the handler was called with: the element, its point, the column and
\* the text of the cell
TableOp(k, sub, col, text) ==
    [op |-> "table_item_changed", ref |-> k, ret |-> 0, hit |-> TRUE,
     exc |-> FALSE, sub |-> sub, col |-> col, text |-> text]

\* the user edits a cell of the elements table: the x or the y of a row, or
\* the radius of a circle's row (the radius cell of a polyline's row is not
\* editable)
table_item_changed ==
    \E e \in 1..Len(sc.elements), col \in {ColumnX, ColumnY, ColumnRadius},
       text \in CellTexts :
        LET k == sc.elements[e]
        IN \E sub \in TableSubs(heap[k]) :
               /\ col = ColumnRadius => heap[k].kind = "circle"
               /\ heap' = [heap EXCEPT ![k] =
                              on_table_item_changed(heap[k], sub, col, text,
                                                    sc.grid_size)]
               /\ lastOp' = TableOp(k, sub, col, text)
               /\ law' = LawOff
               /\ UNCHANGED <<docs, cur, win, disk>>

\* elements drawn with the mouse on the grid of 255
TablePolyline == SceneElement("polyline", <<<<0, 7>>, <<255, 100>>>>, Red, 0)
TableCircle == SceneElement("circle", <<<<7, 0>>>>, Green, 5)

\* A document after a polyline or a circle was drawn on it.
TableInit ==
    /\ heap \in {<<TablePolyline>>, <<TableCircle>>}
    /\ docs = <<AppendAll(NewSceneTab(grid_size), 0, 1)>>
    /\ cur = 1
    /\ win = Settings(grid_size, circle_export_steps, FALSE)
    /\ disk = NoFile
    /\ lastOp = Op("init", 0, 0, FALSE)
    /\ law = LawOff

TableNext ==
    \/ table_item_changed
    \/ apply_settings
    \/ undo
    \/ redo

TableSpec == TableInit /\ [][TableNext]_vars

-----------------------------------------------------------------------------
(* Drawing, removing, undo and redo with edits in the elements table *)

\* the items of the colour combo box of a row: Red, Green, Blue
ComboIndices == 0..2

\* what _on_color_changed_in_table was called with
ColorOp(k, combo_index) ==
    [op |-> "table_color_changed", ref |-> k, ret |-> 0, hit |-> TRUE,
     exc |-> FALSE, index |-> combo_index]

\* a mutant: the colour edit is recorded as an add entry
table_color_changed_pushes_entry ==
    \E e \in 1..Len(sc.elements), combo_index \in ComboIndices :
        LET k == sc.elements[e]
        IN /\ TableSubs(heap[k]) # {}
           /\ combo_index # color_to_code(heap[k].color) - 1
           /\ heap' = [heap EXCEPT ![k].color = code_to_color(combo_index + 1)]
           /\ docs' = [docs EXCEPT ![cur] = push_add(sc, k)]
           /\ lastOp' = ColorOp(k, combo_index)
           /\ law' = LawOff
           /\ UNCHANGED <<cur, win, disk>>

\* _on_color_changed_in_table: the user picks another item in the combo box
\* of a row of element e (currentIndexChanged comes with a new index only)
table_color_changed ==
    \E e \in 1..Len(sc.elements), combo_index \in ComboIndices :
        LET k == sc.elements[e]
        IN /\ TableSubs(heap[k]) # {}
           /\ combo_index # color_to_code(heap[k].color) - 1
           /\ heap' = [heap EXCEPT ![k].color = code_to_color(combo_index + 1)]
           /\ lastOp' = ColorOp(k, combo_index)
           /\ law' = LawOff
           /\ UNCHANGED <<docs, cur, win, disk>>

\* An element was drawn, removed, and the removal undone: it is in the
\* list, its add entry on the undo stack, its remove entry on the redo stack.
TableEditInit ==
    /\ heap \in {<<TablePolyline>>, <<TableCircle>>}
    /\ docs = <<UndoManager_undo(heap,
                   remove_element(heap,
                       AppendAll(NewSceneTab(grid_size), 0, 1), 1))>>
    /\ cur = 1
    /\ win = Settings(grid_size, circle_export_steps, FALSE)
    /\ disk = NoFile
    /\ lastOp = Op("undo", 0, 0, TRUE)
    /\ law = LawOff

TableEditNext ==
    \/ table_item_changed
    \/ table_color_changed
    \/ undo
    \/ redo

TableEditSpec == TableEditInit /\ [][TableEditNext]_vars

\* Drawing, removing, undo and redo from the empty document, with colour
\* edits in the table in between.
TableHistoryNext ==
    \/ draw_polyline
    \/ draw_circle
    \/ remove
    \/ undo
    \/ redo
    \/ table_color_changed

TableHistorySpec == Init /\ [][TableHistoryNext]_vars

-----------------------------------------------------------------------------
(* utils.py called on its own: colours, codes and circles *)

\* channel values with ties between every two channels, codes around the
\* three that are used, and radii and step counts on both sides of zero
Channels == {0, 10, 200, 255}
Codes == {-1, 0, 1, 2, 3, 4}
Centres == {<<0, 0>>, <<10, 10>>}
Radii == {-1, 0, 1, 5}
StepCounts == {-1, 0, 1, 2, 4, 8}

\* what a function of utils.py was called with and what it returned
UtilOp(name, arg, ret) ==
    [op |-> name, ref |-> 0, ret |-> ret, hit |-> TRUE, exc |-> FALSE,
     arg |-> arg]

call_color_to_code ==
    \E r \in Channels, g \in Channels, b \in Channels :
        /\ lastOp' = UtilOp("color_to_code", <<r, g, b>>,
                            color_to_code(<<r, g, b>>))
        /\ UNCHANGED <<heap, docs, cur, win, disk, law>>

call_code_to_color ==
    \E code \in Codes :
        /\ lastOp' = UtilOp("code_to_color", code, code_to_color(code))
        /\ UNCHANGED <<heap, docs, cur, win, disk, law>>

call_circle_to_points ==
    \E cen \in Centres, r \in Radii, s \in StepCounts :
        /\ lastOp' = UtilOp("circle_to_points", <<cen, r, s>>,
                            circle_to_points(cen, r, s))
        /\ UNCHANGED <<heap, docs, cur, win, disk, law>>

UtilNext ==
    \/ call_color_to_code
    \/ call_code_to_color
    \/ call_circle_to_points

UtilSpec == Init /\ [][UtilNext]_vars

-----------------------------------------------------------------------------
(* Exporting a document while a polyline is being drawn *)

\* elements drawn on the grid of 255: a red polyline, a polyline whose
\* colour is no toolbar colour and whose points lie on the border, and a
\* circle around the corner of the grid
ExportElements ==
    {SceneElement("polyline", <<<<0, 0>>, <<10, 0>>, <<10, 10>>>>, Red, 0),
     SceneElement("polyline", <<<<100, 255>>, <<7, 0>>>>, <<10, 200, 30>>, 0),
     SceneElement("circle", <<<<0, 0>>>>, Blue, 5)}

\* A document of up to MaxElems such elements, under any settings.
ExportInit ==
    /\ heap \in SeqsUpTo(ExportElements, MaxElems)
    /\ win \in {Settings(g, s, n) :
                    g \in GridSizes, s \in CircleSteps, n \in BOOLEAN}
    /\ docs = <<AppendAll(NewSceneTab(win.grid_size), 0, Len(heap))>>
    /\ cur = 1
    /\ disk = NoFile
    /\ lastOp = Op("init", 0, 0, FALSE)
    /\ law = LawOff

ExportNext ==
    \/ press_polyline
    \/ apply_settings
    \/ export_laser_format

ExportSpec == ExportInit /\ [][ExportNext]_vars

-----------------------------------------------------------------------------
(* Properties of the document and its history *)

Range(s) == {s[i] : i \in 1..Len(s)}

Count(s, x) == Cardinality({i \in 1..Len(s) : s[i] = x})

\* the same element objects, each as many times, in any order
SameElements(a, b) ==
    \A x \in Range(a) \cup Range(b) : Count(a, x) = Count(b, x)

\* the same element data, each as many times, in any order
SameData(h, a, b) ==
    \A x \in Range(a) \cup Range(b) :
        Cardinality({i \in 1..Len(a) : h[a[i]] = h[x]})
            = Cardinality({i \in 1..Len(b) : h[b[i]] = h[x]})

\* the first position of the object x in s
IndexOf(s, x) ==
    CHOOSE i \in 1..Len(s) : s[i] = x /\ \A j \in 1..(i - 1) : s[j] # x

\* C1: from an empty document with empty history, after any sequence of
\* commit_polyline / commit_circle / remove_element calls, one undo() per
\* call leaves the element list empty (elements may have equal data).
C1_UndoInverse ==
    (law.phase = "undos" /\ law.undos = law.calls) => sc.elements = <<>>

\* a run with a removal in it and two elements of equal data, fully undone
C1_Witness ==
    /\ law.phase = "undos"
    /\ law.undos = law.calls
    /\ Len(law.undo0) >= 3
    /\ \E i \in 1..Len(law.undo0) : law.undo0[i][1] = "remove"
    /\ Len(heap) >= 2
    /\ heap[1] = heap[2]

\* C2: k undo() calls followed by k redo() calls, with no other edit in
\* between, leave the element list holding the same elements as before the
\* undos (in any order), and the undo stack as it was.
C2_RedoInverse ==
    (law.phase = "redos" /\ law.redos = law.undos)
        => /\ SameElements(sc.elements, law.elems0)
           /\ sc.undo = law.undo0

\* What does hold of C2's run: the same data, each as many times, and the
\* same undo stack.
RedoRestoresData ==
    (law.phase = "redos" /\ law.redos = law.undos)
        => /\ SameData(heap, sc.elements, law.elems0)
           /\ sc.undo = law.undo0

\* an edit that took effect: it added or removed an element
TookEffect(o) ==
    /\ o.op \in {"commit_polyline", "commit_circle", "remove_element",
                 "open_csv", "import_laser_format"}
    /\ o.hit

\* C3: every edit that adds or removes an element (a commit, a removal of
\* a present element, each element an import appends) pushes exactly one
\* entry of the matching kind onto the undo stack and leaves the redo stack
\* empty; redo() right after such an edit changes nothing.
C3_Step ==
    /\ lastOp'.op \in {"open_csv", "import_laser_format"}
           => /\ Len(heap') = Len(heap) + lastOp'.ret
              /\ sc'.elements = [i \in 1..lastOp'.ret |-> Len(heap) + i]
              /\ sc'.undo = [i \in 1..lastOp'.ret |-> <<"add", Len(heap) + i>>]
              /\ sc'.redo = <<>>
    /\ (lastOp'.op \in {"commit_polyline", "commit_circle"} /\ lastOp'.hit)
           => /\ sc'.undo = Append(sc.undo, <<"add", lastOp'.ret>>)
              /\ sc'.redo = <<>>
    /\ (lastOp'.op = "remove_element" /\ lastOp'.ref \in Range(sc.elements))
           => /\ sc'.undo = Append(sc.undo, <<"remove", lastOp'.ref>>)
              /\ sc'.redo = <<>>
    /\ (TookEffect(lastOp) /\ lastOp'.op = "redo")
           => /\ docs' = docs
              /\ heap' = heap

C3_EditPushesOne == [][C3_Step]_vars

\* an element was removed from a document that an import filled with two
C3_Witness ==
    /\ lastOp.op = "remove_element"
    /\ lastOp.hit
    /\ cur = 2
    /\ Len(sc.undo) = 3
    /\ sc.undo[1][1] = "add"
    /\ sc.undo[2][1] = "add"
    /\ sc.redo = <<>>

\* C4: remove_element(ref) with ref in the list removes exactly the element
\* whose reference is ref; every other element, one of equal data included,
\* stays at its position; the pushed entry names the element taken out.
C4_Step ==
    (lastOp'.op = "remove_element" /\ lastOp'.ref \in Range(sc.elements))
        => /\ sc'.elements
                  = RemoveAt(sc.elements, IndexOf(sc.elements, lastOp'.ref))
           /\ Last(sc'.undo) = <<"remove", lastOp'.ref>>

C4_RemoveByIdentity == [][C4_Step]_vars

\* C5: commit_polyline with at least 2 buffered points appends one polyline
\* with a copy of the points, in order, and the drawing colour, pushes one
\* add entry, empties the buffer and returns the element; with 0 or 1
\* points it returns nothing and leaves list, stacks and buffer unchanged.
C5_Step ==
    lastOp'.op = "commit_polyline"
        => IF Len(sc.temp_points) >= 2
           THEN /\ lastOp'.ret = Len(heap) + 1
                /\ Len(heap') = Len(heap) + 1
                /\ heap'[lastOp'.ret].kind = "polyline"
                /\ heap'[lastOp'.ret].points = sc.temp_points
                /\ heap'[lastOp'.ret].color = sc.cc
                /\ sc'.elements = Append(sc.elements, lastOp'.ret)
                /\ sc'.undo = Append(sc.undo, <<"add", lastOp'.ret>>)
                /\ sc'.temp_points = <<>>
           ELSE /\ lastOp'.ret = 0
                /\ heap' = heap
                /\ sc'.elements = sc.elements
                /\ sc'.undo = sc.undo
                /\ sc'.redo = sc.redo
                /\ sc'.temp_points = sc.temp_points

C5_CommitPolyline == [][C5_Step]_vars

\* a polyline of two different points was committed in green
C5_Witness ==
    /\ lastOp.op = "commit_polyline"
    /\ lastOp.ret # 0
    /\ heap[lastOp.ret].color = Green
    /\ heap[lastOp.ret].points[1] # heap[lastOp.ret].points[2]
    /\ Last(sc.elements) = lastOp.ret

\* C6: undo() on an empty undo stack, redo() on an empty redo stack and
\* remove_element(ref) with ref not in the list (even when an element of
\* equal data is) leave list, stacks and in-progress state unchanged.
C6_Step ==
    (\/ lastOp'.op = "undo" /\ sc.undo = <<>>
     \/ lastOp'.op = "redo" /\ sc.redo = <<>>
     \/ lastOp'.op = "remove_element" /\ lastOp'.ref \notin Range(sc.elements))
        => sc' = sc

C6_NoOps == [][C6_Step]_vars

\* C7: clear_all() leaves the element list, the polyline buffer, the circle
\* centre and both history stacks empty; undo()/redo() calls right after it
\* leave them so.
C7_ClearAll ==
    law.cleared
        => /\ sc.elements = <<>>
           /\ sc.temp_points = <<>>
           /\ sc.circle_center = <<>>
           /\ sc.undo = <<>>
           /\ sc.redo = <<>>

\* undo() or redo() was called after a clear_all() that emptied the list
C7_Witness ==
    /\ law.cleared
    /\ lastOp.op \in {"undo", "redo"}
    /\ Len(heap) >= 1

-----------------------------------------------------------------------------
(* Properties of the codecs *)

\* every element of the data is a polyline
PolylinesOnly(data) == \A i \in 1..Len(data) : data[i].kind = "polyline"

\* as many elements, each a polyline with the points and the colour code of
\* the element of a at its position
SamePolylines(a, b) ==
    /\ Len(b) = Len(a)
    /\ \A i \in 1..Len(a) :
           /\ b[i].kind = "polyline"
           /\ b[i].points = a[i].points
           /\ color_to_code(b[i].color) = color_to_code(a[i].color)

\* the document was just read from a laser file exported from polylines
LaserRoundTrip ==
    /\ lastOp.op = "import_laser_format"
    /\ disk.written
    /\ PolylinesOnly(disk.src)

\* C8 as stated: a document of polylines only, exported to laser format
\* under any normalize option and any grid_size and imported again, yields
\* as many elements in the same order, each a polyline with the same points
\* and the same colour code.
C8_AnySettings == LaserRoundTrip => SamePolylines(disk.src, DataOf(heap, sc))

\* C8: a document of polylines only, exported to laser format with the
\* normalize option off or with grid_size 255 and imported again, yields as
\* many elements in the same order, each a polyline with the same points
\* and the same colour code.
C8_LaserRoundTrip ==
    (LaserRoundTrip /\ (~disk.win.normalize \/ disk.win.grid_size = 255))
        => SamePolylines(disk.src, DataOf(heap, sc))

\* two polylines of one colour, exported normalized on a grid of 255
C8_Witness ==
    /\ LaserRoundTrip
    /\ disk.win.normalize
    /\ disk.win.grid_size = 255
    /\ Len(disk.src) = 2
    /\ disk.src[1].color = disk.src[2].color
    /\ disk.src[1].points # disk.src[2].points

\* the records of one element: each point of a polyline with the colour
\* code of the polyline, a circle with its centre and radius
ElementItems(el) ==
    IF el.kind = "polyline"
    THEN [i \in 1..Len(el.points) |->
             <<"point", el.points[i], color_to_code(el.color)>>]
    ELSE <<<<"circle", el.points[1], el.radius>>>>

\* the records of a document, in document order
RECURSIVE Items(_)
Items(data) ==
    IF data = <<>> THEN <<>>
    ELSE Items(Front(data)) \o ElementItems(Last(data))

\* C9: a document saved to CSV and opened again yields, in document order,
\* the same polyline points each with the same colour code, and for every
\* circle a circle with the same centre and the same radius.
C9_CsvRoundTrip ==
    (lastOp.op = "open_csv" /\ disk.written)
        => /\ ~lastOp.exc
           /\ Items(DataOf(heap, sc)) = Items(disk.src)

\* a polyline of a colour that is no primary and a circle of radius 5
C9_Witness ==
    /\ lastOp.op = "open_csv"
    /\ disk.written
    /\ Len(disk.src) = 2
    /\ disk.src[1].kind = "polyline"
    /\ disk.src[1].color \notin ToolbarColors
    /\ disk.src[2].kind = "circle"
    /\ disk.src[2].radius = 5

\* the record converts without an exception
WellFormed(hdr, fields) ==
    /\ IntFloatOf(Get(hdr, fields, K_x)).ok
    /\ IntFloatOf(Get(hdr, fields, K_y)).ok
    /\ IntFloatOf(Get(hdr, fields, K_r)).ok
    /\ IntFloatOf(Get(hdr, fields, K_g)).ok
    /\ IntFloatOf(Get(hdr, fields, K_b)).ok
    /\ Get(hdr, fields, K_kind) = StrVal(CIRCLE)
           => RadiusOf(Get(hdr, fields, K_radius)).ok

\* the well-formed polyline and circle records of a file
WellFormedRows(lines) ==
    {i \in 2..Len(lines) :
        /\ lines[i] # <<>>
        /\ Get(split(lines[1], ","), split(lines[i], ","), K_kind)
               \in {StrVal(POLYLINE), StrVal(CIRCLE)}
        /\ WellFormed(split(lines[1], ","), split(lines[i], ","))}

\* C10: open_csv never aborts on a record whose x, y, r, g, b or radius is
\* no number: it is not left by an exception, and every well-formed record
\* of the file is in the document.
C10_ImportNeverAborts ==
    lastOp.op = "open_csv"
        => /\ ~lastOp.exc
           /\ Len(Items(DataOf(heap, sc))) >= Cardinality(WellFormedRows(disk.lines))

\* a non-empty line that is no COLOR directive, is not STOP, and is not two
\* numbers with a comma between them
Malformed(ln) ==
    /\ strip(ln) # <<>>
    /\ ~startswith(upper(strip(ln)), COLOR)
    /\ upper(strip(ln)) # STOP
    /\ \/ Find(strip(ln), ",") = 0
       \/ ~py_int_float(SubSeq(strip(ln), 1, Find(strip(ln), ",") - 1)).ok
       \/ ~py_int_float(SubSeq(strip(ln), Find(strip(ln), ",") + 1,
                               Len(strip(ln)))).ok

\* the lines of a file that are not malformed
WellFormedLines(lines) == SelectSeq(lines, LAMBDA ln : ~Malformed(ln))

\* C11: laser import never aborts on a malformed line: the import is not
\* left by an exception, and the document it fills is the one the file
\* without its malformed lines gives (the line is skipped, accumulator and
\* colour stay, every later line is processed).
C11_MalformedLineSkipped ==
    (lastOp.op = "import_laser_format" /\ disk.fmt = "laser")
        => /\ ~lastOp.exc
           /\ DataOf(heap, sc) = laser_elements(WellFormedLines(disk.lines))

\* a malformed line stood between two points of one imported polyline
C11_Witness ==
    /\ lastOp.op = "import_laser_format"
    /\ disk.fmt = "laser"
    /\ Len(disk.lines) = 4
    /\ Malformed(disk.lines[3])
    /\ Len(sc.elements) = 1
    /\ Len(heap[sc.elements[1]].points) = 2

\* an import handler returned
Imported(o) == o.op \in {"open_csv", "import_laser_format"}

\* C12: an import (laser or CSV) whose file cannot be read aborts before
\* mutating anything: no document is created, and the open documents, their
\* element lists and their history stacks are as before the call.
C12_Step ==
    (Imported(lastOp') /\ disk.fmt = "unreadable")
        => /\ docs' = docs
           /\ heap' = heap
           /\ cur' = cur

C12_UnreadableAborts == [][C12_Step]_vars

\* What does hold of C12: the laser import of an unreadable file changes
\* nothing.
UnreadableLaserAborts ==
    [][(lastOp'.op = "import_laser_format" /\ disk.fmt = "unreadable")
           => /\ docs' = docs
              /\ heap' = heap
              /\ cur' = cur]_vars

\* C14: in every reachable state, after a laser or CSV import included,
\* every polyline in a document's element list has at least 2 points.
C14_PolylineTwoPoints ==
    \A i \in 1..Len(docs) :
        \A k \in 1..Len(docs[i].elements) :
            heap[docs[i].elements[k]].kind = "polyline"
                => Len(heap[docs[i].elements[k]].points) >= 2

\* C15: right after a laser or CSV import into a document the undo stack
\* holds exactly one add entry per imported element, in list order, and
\* the redo stack is empty; undo() called once per imported element leaves
\* that document empty.
C15_ImportHistory ==
    /\ (law.phase = "imported" /\ law.undos = 0)
           => /\ Len(sc.elements) = law.calls
              /\ sc.undo = [i \in 1..Len(sc.elements) |-> <<"add", sc.elements[i]>>]
              /\ sc.redo = <<>>
    /\ (law.phase = "imported" /\ law.undos = law.calls)
           => sc.elements = <<>>

\* two elements of equal data were imported and undo() was called twice
C15_Witness ==
    /\ law.phase = "imported"
    /\ law.calls = 2
    /\ law.undos = 2
    /\ lastOp.op = "undo"
    /\ Len(sc.redo) = 2
    /\ heap[sc.redo[1][2]] = heap[sc.redo[2][2]]

\* C13: in every reachable state every point coordinate of every element in
\* a document's element list lies in [0, grid_size] of that document.
C13_GridBounds ==
    \A i \in 1..Len(docs) :
        \A k \in 1..Len(docs[i].elements) :
            LET el == heap[docs[i].elements[k]]
            IN \A p \in 1..Len(el.points) :
                   /\ el.points[p][1] \in 0..docs[i].grid_size
                   /\ el.points[p][2] \in 0..docs[i].grid_size

\* the number the text of a cell stands for (0 when it stands for none)
Entered(text) == py_int_float(text).val

\* C16: a table edit of a point of a polyline or of a circle's centre, with
\* numbers x and y in the cells of the row, stores (min(max(x,0),grid_size),
\* min(max(y,0),grid_size)); a table edit of a radius with number v stores
\* max(0, v).
C16_Step ==
    (lastOp'.op = "table_item_changed" /\ py_int_float(lastOp'.text).ok) =>
        LET k == lastOp'.ref
            sub == lastOp'.sub
            v == Entered(lastOp'.text)
            g == sc.grid_size
            x == IF lastOp'.col = ColumnX THEN v ELSE heap[k].points[sub][1]
            y == IF lastOp'.col = ColumnY THEN v ELSE heap[k].points[sub][2]
        IN IF lastOp'.col = ColumnRadius
           THEN heap'[k].radius = (IF 0 >= v THEN 0 ELSE v)
           ELSE heap'[k].points[sub] =
                    <<(IF (IF x >= 0 THEN x ELSE 0) <= g
                       THEN (IF x >= 0 THEN x ELSE 0) ELSE g),
                      (IF (IF y >= 0 THEN y ELSE 0) <= g
                       THEN (IF y >= 0 THEN y ELSE 0) ELSE g)>>

C16_TableEditClamps == [][C16_Step]_vars

\* a number above the grid was entered for a point and the grid size was
\* stored; a negative radius was entered before or after
C16_Witness ==
    /\ lastOp.op = "table_item_changed"
    /\ lastOp.col = ColumnX
    /\ Entered(lastOp.text) > sc.grid_size
    /\ sc.grid_size < grid_size
    /\ heap[lastOp.ref].points[lastOp.sub][1] = sc.grid_size
    /\ heap[lastOp.ref].kind = "circle"
    /\ heap[lastOp.ref].radius = 0

\* C17: color_to_code returns 1 when r >= g and r >= b, otherwise 2 when
\* g >= b, otherwise 3; code_to_color gives (255,0,0) for 1, (0,255,0) for 2
\* and (0,0,255) for any other code, and
\* code_to_color(color_to_code(code_to_color(c))) = code_to_color(c).
C17_ColorCodes ==
    /\ lastOp.op = "color_to_code" =>
           LET r == lastOp.arg[1]
               g == lastOp.arg[2]
               b == lastOp.arg[3]
           IN lastOp.ret = (IF r >= g /\ r >= b THEN 1
                            ELSE IF g >= b THEN 2 ELSE 3)
    /\ lastOp.op = "code_to_color" =>
           /\ lastOp.ret = (IF lastOp.arg = 1 THEN <<255, 0, 0>>
                            ELSE IF lastOp.arg = 2 THEN <<0, 255, 0>>
                            ELSE <<0, 0, 255>>)
           /\ code_to_color(color_to_code(lastOp.ret)) = lastOp.ret

\* red and green tie above blue, and the code is 1
C17_Witness ==
    /\ lastOp.op = "color_to_code"
    /\ lastOp.arg[1] = lastOp.arg[2]
    /\ lastOp.arg[2] > lastOp.arg[3]
    /\ lastOp.ret = 1

\* C18: circle_to_points(c, r, s) returns exactly s points when r > 0 and
\* s > 0, and the empty sequence when r <= 0 or s <= 0.
C18_CirclePointCount ==
    lastOp.op = "circle_to_points" =>
        LET r == lastOp.arg[2]
            s == lastOp.arg[3]
        IN IF r > 0 /\ s > 0
           THEN Len(lastOp.ret) = s
           ELSE lastOp.ret = <<>>

\* a circle of radius 5 around (10,10) in 8 steps: 8 points, the first one
\* at angle 0
C18_Witness ==
    /\ lastOp.op = "circle_to_points"
    /\ lastOp.arg = <<<<10, 10>>, 5, 8>>
    /\ Len(lastOp.ret) = 8
    /\ lastOp.ret[1] = <<15, 10>>
    /\ lastOp.ret[2] = <<14, 14>>

\* the points C19 names for an element: a polyline's stored points, a
\* circle's rasterized points for s steps
PointsToWrite(el, s) ==
    IF el.kind = "polyline" THEN el.points
    ELSE circle_to_points(el.points[1], el.radius, s)

\* the number of lines of the elements before element i: per element its
\* points and two more
RECURSIVE LinesBefore(_, _, _)
LinesBefore(data, i, s) ==
    IF i = 1 THEN 0
    ELSE LinesBefore(data, i - 1, s) + Len(PointsToWrite(data[i - 1], s)) + 2

\* the line "x,y" of a point, rescaled when normalize is on
PointLine(pt, w) ==
    IF w.normalize
    THEN str(Normalized(pt[1], w.grid_size)) \o <<",">>
             \o str(Normalized(pt[2], w.grid_size))
    ELSE str(pt[1]) \o <<",">> \o str(pt[2])

ExamplePolyline ==
    SceneElement("polyline", <<<<0, 0>>, <<10, 0>>, <<10, 10>>>>, Red, 0)

ExampleLines ==
    <<COLOR \o <<" ", "1">>, <<"0", ",", "0">>, <<"1", "0", ",", "0">>,
      <<"1", "0", ",", "1", "0">>, STOP>>

\* C19: laser export writes, for each element of the current document in
\* list order, one line COLOR <code> with the code of the element's colour,
\* one line x,y per point and one line STOP, and nothing else (no line for an
\* in-progress point); one red polyline [(0,0),(10,0),(10,10)] with normalize
\* off gives COLOR 1 / 0,0 / 10,0 / 10,10 / STOP.
C19_LaserExport ==
    lastOp.op = "export_laser_format" =>
        LET data == DataOf(heap, sc)
        IN /\ Len(disk.lines) = LinesBefore(data, Len(data) + 1, win.steps)
           /\ \A i \in 1..Len(data) :
                  LET b == LinesBefore(data, i, win.steps)
                      pts == PointsToWrite(data[i], win.steps)
                  IN /\ disk.lines[b + 1] =
                            COLOR \o <<" ">> \o str(color_to_code(data[i].color))
                     /\ \A p \in 1..Len(pts) :
                            disk.lines[b + 1 + p] = PointLine(pts[p], win)
                     /\ disk.lines[b + Len(pts) + 2] = STOP
           /\ (data = <<ExamplePolyline>> /\ ~win.normalize)
                  => disk.lines = ExampleLines

\* the example polyline was exported with normalize off while two points of
\* another polyline were in progress
C19_Witness ==
    /\ lastOp.op = "export_laser_format"
    /\ DataOf(heap, sc) = <<ExamplePolyline>>
    /\ ~win.normalize
    /\ Len(sc.temp_points) = 2
    /\ disk.lines = ExampleLines

\* the numbers on the coordinate lines of a laser file
WrittenNumbers(lines) ==
    UNION {{py_int(split(lines[i], ",")[j]).val :
                j \in 1..Len(split(lines[i], ","))} :
           i \in {n \in 1..Len(lines) :
                      ~startswith(lines[n], COLOR) /\ lines[n] # STOP}}

\* C20: with the normalize option on, every coordinate written by laser
\* export lies in [0, 255].
C20_NormalizedInRange ==
    (lastOp.op = "export_laser_format" /\ win.normalize) =>
        \A v \in WrittenNumbers(disk.lines) : v \in 0..255

\* the handler's cc, cp and appended elements after the first n lines of
\* the file
AfterLines(n) == LaserLines(SubSeq(disk.lines, 1, n))

IsColorLine(ln) == startswith(upper(strip(ln)), COLOR)
IsStopLine(ln) == upper(strip(ln)) = STOP

LaserImportDone == lastOp.op = "import_laser_format" /\ disk.fmt = "laser"

\* C21: after any COLOR directive is processed the accumulator is empty, the
\* first one included, so no point read before a COLOR directive is in an
\* element emitted after it; the first COLOR directive emits no element.
C21_ColorStartsGroup ==
    LaserImportDone =>
        \A n \in 1..Len(disk.lines) :
            IsColorLine(disk.lines[n]) =>
                /\ AfterLines(n).cp = <<>>
                /\ (\A k \in 1..(n - 1) : ~IsColorLine(disk.lines[k]))
                       => AfterLines(n).out = <<>>

\* C22: at the end of the file the points remaining in the accumulator are
\* the last polyline of the document, also in a file without a COLOR
\* directive.
C22_FinalFlush ==
    LaserImportDone =>
        LET st == AfterLines(Len(disk.lines))
            data == DataOf(heap, sc)
        IN st.cp # <<>> =>
               /\ data # <<>>
               /\ Last(data).kind = "polyline"
               /\ Last(data).points = st.cp

\* C23: a STOP directive emits the accumulated points (when there are any
\* and a colour is set) as one polyline, empties the accumulator and keeps
\* the current colour; the coordinate lines after it, with no new COLOR
\* directive, form a separate polyline of the same colour.
C23_StopKeepsColour ==
    LaserImportDone =>
        /\ \A n \in 1..Len(disk.lines) :
               IsStopLine(disk.lines[n]) =>
                   LET before == AfterLines(n - 1)
                       after == AfterLines(n)
                   IN /\ after.cp = <<>>
                      /\ after.cc = before.cc
                      /\ after.out =
                             IF before.cp # <<>> /\ before.cc # <<>>
                             THEN Append(before.out,
                                         SceneElement("polyline", before.cp,
                                                      before.cc[1], 0))
                             ELSE before.out
        /\ (/\ Len(disk.lines) = 4
            /\ IsColorLine(disk.lines[1])
            /\ LaserCoordinates(LaserStart, disk.lines[2]).cp # <<>>
            /\ IsStopLine(disk.lines[3])
            /\ LaserCoordinates(LaserStart, disk.lines[4]).cp # <<>>)
               => LET data == DataOf(heap, sc)
                  IN /\ Len(data) = 2
                     /\ data[1].points = LaserCoordinates(LaserStart, disk.lines[2]).cp
                     /\ data[2].points = LaserCoordinates(LaserStart, disk.lines[4]).cp
                     /\ data[2].color = data[1].color

\* COLOR 2 / 0,0 / STOP / -1,9 was imported: two green polylines of one
\* point each
C23_Witness ==
    /\ LaserImportDone
    /\ Len(disk.lines) = 4
    /\ IsStopLine(disk.lines[3])
    /\ DataOf(heap, sc) =
           <<SceneElement("polyline", <<<<0, 0>>>>, Green, 0),
             SceneElement("polyline", <<<<-1, 9>>>>, Green, 0)>>

\* C28: saving a document as CSV and opening the file yields the same number
\* of elements, in the same order, each of the same kind and with the same
\* number of points as the source element.
C28_CsvKeepsBoundaries ==
    (lastOp.op = "open_csv" /\ disk.written) =>
        LET src == disk.src
            data == DataOf(heap, sc)
        IN /\ Len(data) = Len(src)
           /\ \A i \in 1..Len(data) :
                  /\ data[i].kind = src[i].kind
                  /\ Len(data[i].points) = Len(src[i].points)

ZeroCircle(el) == el.kind = "circle" /\ el.radius = 0

IsCoordinateLine(ln) == ~startswith(ln, COLOR) /\ ln # STOP

\* C26 as stated: laser export writes no line at all for a circle of radius
\* 0; the output is that of the document without it.
C26_ExportsNothing ==
    lastOp.op = "export_laser_format" =>
        disk.lines = laser_lines(SelectSeq(DataOf(heap, sc),
                                           LAMBDA el : ~ZeroCircle(el)),
                                 win.normalize, win.grid_size, win.steps)

\* C26, amended: laser export writes no coordinate line for a circle of
\* radius 0, only its COLOR line and its STOP line; the coordinate lines of
\* the output are those of the document without it.
C26_ExportsNoPoint ==
    lastOp.op = "export_laser_format" =>
        LET data == DataOf(heap, sc)
        IN /\ \A i \in 1..Len(data) :
                  ZeroCircle(data[i]) =>
                      LET b == LinesBefore(data, i, win.steps)
                      IN /\ LinesBefore(data, i + 1, win.steps) = b + 2
                         /\ disk.lines[b + 1] =
                                COLOR \o <<" ">>
                                    \o str(color_to_code(data[i].color))
                         /\ disk.lines[b + 2] = STOP
           /\ SelectSeq(disk.lines, IsCoordinateLine) =
                  SelectSeq(laser_lines(SelectSeq(data,
                                                  LAMBDA el : ~ZeroCircle(el)),
                                        win.normalize, win.grid_size,
                                        win.steps),
                            IsCoordinateLine)

\* a polyline and then a circle of radius 0 were exported: the file ends
\* with the circle's COLOR line and STOP
C26_Witness ==
    /\ lastOp.op = "export_laser_format"
    /\ Len(DataOf(heap, sc)) = 2
    /\ DataOf(heap, sc)[1].kind = "polyline"
    /\ ZeroCircle(DataOf(heap, sc)[2])
    /\ Len(disk.lines) = Len(DataOf(heap, sc)[1].points) + 4
    /\ disk.lines[Len(disk.lines) - 1] = COLOR \o <<" ", "3">>

\* C25: undo() of a remove entry and redo() of an add entry put the element
\* at the end of the element list, after every element in it, and leave the
\* other elements in their order.
C25_Step ==
    /\ (lastOp'.op = "undo" /\ <<docs, lastOp>> # <<docs', lastOp'>>
            /\ sc.undo # <<>> /\ Last(sc.undo)[1] = "remove")
           => docs'[cur'].elements = Append(sc.elements, Last(sc.undo)[2])
    /\ (lastOp'.op = "redo" /\ <<docs, lastOp>> # <<docs', lastOp'>>
            /\ sc.redo # <<>> /\ Last(sc.redo)[1] = "add")
           => docs'[cur'].elements = Append(sc.elements, Last(sc.redo)[2])

C25_ReAddedAtEnd == [][C25_Step]_vars

\* the first of two elements was removed and the removal undone: it is now
\* the last one
C25_Witness ==
    /\ lastOp.op = "undo"
    /\ sc.redo # <<>>
    /\ Last(sc.redo) = <<"remove", 1>>
    /\ sc.elements = <<2, 1>>

TableEdit(o) == o.op \in {"table_item_changed", "table_color_changed"}

\* C24: a table edit of a point, a radius or a colour leaves the undo stack,
\* the redo stack and the element list as they were.
C24_Step ==
    (TableEdit(lastOp') /\ <<heap, lastOp>> # <<heap', lastOp'>>) =>
        /\ docs'[cur'].undo = sc.undo
        /\ docs'[cur'].redo = sc.redo
        /\ docs'[cur'].elements = sc.elements

C24_TableEditsNoHistory == [][C24_Step]_vars

\* a colour was changed in the table while both stacks held entries and the
\* list two elements
C24_Witness ==
    /\ lastOp.op = "table_color_changed"
    /\ heap[lastOp.ref].color = code_to_color(lastOp.index + 1)
    /\ sc.undo # <<>>
    /\ sc.redo # <<>>
    /\ sc.elements # <<>>

\* C27: from an empty document, after any commits, removals, undo/redo and
\* table edits, calling undo() until the undo stack is empty leaves the
\* element list empty.
C27_UndoEmptiesAfterEdits ==
    (lastOp.op = "undo" /\ sc.undo = <<>>) => sc.elements = <<>>

TypeOK ==
    /\ cur \in 1..Len(docs)
    /\ \A i \in 1..Len(docs) :
           /\ \A k \in 1..Len(docs[i].elements) :
                  docs[i].elements[k] \in 1..Len(heap)
           /\ Len(docs[i].temp_points) <= MaxTemp
====
